---------------------------- MODULE Spec2Model ----------------------------
(***************************************************************************)
(* A model of the plot command of go-benchmark-kvstore: Plot.processFile   *)
(* (log ingestion and reconciliation), Plot.Run (grouping by               *)
(* configuration), Plot.renderData / Plot.renderPlot / makeLineData (chart *)
(* assembly and document emission) and the generated toggleErrorBars       *)
(* callback that the hosting page runs on the emitted charts.              *)
(*                                                                         *)
(* Three specifications share the module:                                  *)
(*   SpecFile    one call of processFile, folded record by record;         *)
(*   SpecRun     one call of Run over a list of files, then renderData;    *)
(*   SpecToggle  the emitted document in its host, under toggle clicks.    *)
(***************************************************************************)
EXTENDS Integers, Sequences, FiniteSets, TLC

VARIABLES
    \* ---- processFile (SpecFile) ----
    entries,        \* the log entries the decoder has returned so far
    measurements,   \* the *plotMeasurements being filled
    start,          \* var start time.Time
    filePc,         \* "idle" | "decoding" | "returned" | "failed"
    fileErr,        \* the error processFile returned ("" for nil)
    \* ---- Run / renderData (SpecRun) ----
    Files,          \* p.Files, each path standing for its file's content
    fileIdx,        \* position of the range loop over p.Files
    heap,           \* allocated plotMeasurements, by pointer
    data,           \* map[plotConfig][]*plotMeasurements
    page,           \* the charts added to the page, in order
    output,         \* the file at p.Output
    runPc,          \* "idle" | "files" | "render" | "create" | "write" | "done" | "failed"
    runErr,         \* the error Run returned ("" for nil)
    \* ---- the emitted document in its host (SpecToggle) ----
    option,         \* per chart, the live series list (chart.getOption().series)
    clicks          \* per chart, how often its toggle button was clicked

fileVars   == <<entries, measurements, start, filePc, fileErr>>
runVars    == <<Files, fileIdx, heap, data, page, output, runPc, runErr>>
toggleVars == <<option, clicks>>
vars       == <<entries, measurements, start, filePc, fileErr,
                Files, fileIdx, heap, data, page, output, runPc, runErr,
                option, clicks>>

----------------------------------------------------------------------------
(* Bounds of the model *)

MaxRecords == 4     \* entries decoded from one file in SpecFile
MaxT       == 2     \* latest instant a timestamp of SpecFile can name
MaxFiles   == 3     \* len(p.Files) in SpecRun and SpecToggle
MaxSamples == 3     \* entries after the marker in the generated files of SpecRun
MaxGenT    == 3     \* latest instant a timestamp of a generated file can name
MaxClicks  == 2     \* toggle clicks per chart in SpecToggle

----------------------------------------------------------------------------
(* Values *)

\* entry.Timestamp == "" (the field is absent from the record)
NoTimestamp == -1
\* an entry.Timestamp that time.Parse rejects
BadTimestamp == -2
\* time.Time{}: the instant for which IsZero() holds. Instants are counted in
\* ticks from it; a timestamp string may name this very instant.
ZeroTime == 0
\* dataIntervalUnit, in ticks (two ticks to the display unit, so that the
\* division in makeLineData is not the identity)
dataIntervalUnit == 2

plotConfig(w, r, s, v) == [Writers |-> w, Readers |-> r, Size |-> s, Vary |-> v]

\* The zero value of plotConfig / of the config fields of logEntry.
ZeroConfig == plotConfig(0, 0, 0, FALSE)
ConfigA    == plotConfig(2, 4, 1024, FALSE)
ConfigB    == plotConfig(2, 4, 1024, TRUE)

\* A decoded line. Malformed stands for a line json.Decoder rejects.
logEntry(msg, ts, engine, config, v) ==
    [Malformed |-> FALSE, Message |-> msg, Timestamp |-> ts,
     Engine |-> engine, Writers |-> config.Writers, Readers |-> config.Readers,
     Size |-> config.Size, Vary |-> config.Vary,
     Rate |-> v, Mean |-> v, Min |-> v - 1, Max |-> v + 1]

MalformedLine == [logEntry("", NoTimestamp, "", ZeroConfig, 0) EXCEPT !.Malformed = TRUE]

running(engine, config, ts) == logEntry("running", ts, engine, config, 0)
sample(msg, ts, v)          == logEntry(msg, ts, "", ZeroConfig, v)

EmptyMap == [k \in {} |-> <<>>]

\* measurements := &plotMeasurements{Data: make(map[string][][]float64)}
NewMeasurements ==
    [Engine |-> "", Config |-> ZeroConfig, Timestamps |-> <<>>, Data |-> EmptyMap]

----------------------------------------------------------------------------
(* processFile, one loop iteration *)

Prefix(s, n) == SubSeq(s, 1, n)

\* The six message tags of the switch and the series each one feeds.
MetricOf(message) ==
    CASE message = "counter get"      -> "get rate"
      [] message = "counter set"      -> "set rate"
      [] message = "sample get.ready" -> "get ready"
      [] message = "sample get.first" -> "get first"
      [] message = "sample get.total" -> "get total"
      [] message = "sample set"       -> "set"
      [] OTHER                        -> ""

\* []float64{entry.Rate} for the counters, {Mean, Min, Max} for the samples.
SampleOf(entry) ==
    IF entry.Message \in {"counter get", "counter set"}
    THEN <<entry.Rate>>
    ELSE <<entry.Mean, entry.Min, entry.Max>>

\* m.Data[name] = append(m.Data[name], values)
AppendSample(Data, name, values) ==
    IF name \in DOMAIN Data
    THEN [Data EXCEPT ![name] = Append(@, values)]
    ELSE Data @@ (name :> <<values>>)

\* FoldTimestamp without the comparison with the last offset.
FoldTimestampNoCoalesce(st, timestamps, timestamp) ==
    IF st = ZeroTime
    THEN [start |-> timestamp, Timestamps |-> Append(timestamps, 0)]
    ELSE [start |-> st, Timestamps |-> Append(timestamps, timestamp - st)]

\* The timestamp block of the loop body: yields the new start and Timestamps.
FoldTimestamp(st, timestamps, timestamp) ==
    IF st = ZeroTime
    THEN [start |-> timestamp, Timestamps |-> Append(timestamps, 0)]
    ELSE LET sinceStart == timestamp - st IN
         [start |-> st,
          Timestamps |-> IF timestamps[Len(timestamps)] # sinceStart
                         THEN Append(timestamps, sinceStart)
                         ELSE timestamps]

\* The switch on entry.Message, for an entry it accepts.
FoldMessage(m, entry) ==
    IF entry.Message = "running"
    THEN [m EXCEPT !.Engine = entry.Engine,
                   !.Config = plotConfig(entry.Writers, entry.Readers,
                                         entry.Size, entry.Vary)]
    ELSE IF MetricOf(entry.Message) # ""
    THEN [m EXCEPT !.Data = AppendSample(@, MetricOf(entry.Message), SampleOf(entry))]
    ELSE m

\* The error of one loop iteration, "" when the entry is folded.
EntryError(m, entry) ==
    IF entry.Malformed THEN "decode"
    ELSE IF entry.Timestamp = BadTimestamp THEN "timestamp"
    ELSE IF entry.Message = "running" /\ m.Engine # "" THEN "duplicate"
    ELSE ""

\* FoldEntry that skips the switch when the entry's offset was coalesced.
FoldEntryDropCoalesced(st, entry) ==
    LET t == IF entry.Timestamp # NoTimestamp
             THEN FoldTimestamp(st.start, st.m.Timestamps, entry.Timestamp)
             ELSE [start |-> st.start, Timestamps |-> st.m.Timestamps]
        coalesced == entry.Timestamp # NoTimestamp /\ t.Timestamps = st.m.Timestamps
    IN [m     |-> IF coalesced THEN st.m
                  ELSE FoldMessage([st.m EXCEPT !.Timestamps = t.Timestamps], entry),
        start |-> t.start]

\* One loop iteration on an entry it accepts: the state [m, start] after it.
FoldEntry(st, entry) ==
    LET t == IF entry.Timestamp # NoTimestamp
             THEN FoldTimestamp(st.start, st.m.Timestamps, entry.Timestamp)
             ELSE [start |-> st.start, Timestamps |-> st.m.Timestamps]
    IN [m     |-> FoldMessage([st.m EXCEPT !.Timestamps = t.Timestamps], entry),
        start |-> t.start]

Min2(a, b) == IF a < b THEN a ELSE b

RECURSIVE MinLen(_, _, _)
MinLen(Data, names, length) ==
    IF names = {} THEN length
    ELSE LET name == CHOOSE n \in names : TRUE IN
         MinLen(Data, names \ {name}, Min2(length, Len(Data[name])))

\* length := len(Timestamps); for values in Data: if len(values) < length ...
ReconcileLength(m) == MinLen(m.Data, DOMAIN m.Data, Len(m.Timestamps))

\* Reconcile without the truncation of Timestamps.
ReconcileKeepsTimestamps(m) ==
    LET length == ReconcileLength(m) IN
    [m EXCEPT !.Data = [name \in DOMAIN m.Data |-> Prefix(m.Data[name], length)]]

\* Reconcile that cuts each series to its own length and the offsets' only.
ReconcileIndependent(m) ==
    [m EXCEPT !.Data = [name \in DOMAIN m.Data |->
                          Prefix(m.Data[name],
                                 Min2(Len(m.Data[name]), Len(m.Timestamps)))]]

\* The truncation after the loop.
Reconcile(m) ==
    LET length == ReconcileLength(m) IN
    [m EXCEPT !.Timestamps = Prefix(@, length),
              !.Data = [name \in DOMAIN m.Data |-> Prefix(m.Data[name], length)]]

----------------------------------------------------------------------------
(* SpecFile: processFile on one file, entry by entry *)

FileEngines    == {"", "X"}
FileConfigs    == {ConfigA, ConfigB}
FileMessages   == {"counter get", "sample set", "other"}
FileTimestamps == {NoTimestamp} \cup (ZeroTime .. MaxT)

\* The lines the k-th Decode of SpecFile can return. The k-th line carries the
\* sample value k, so that every sample of a stream names the line it came from.
FileEntries(k) ==
    {running(e, c, NoTimestamp) : e \in FileEngines, c \in FileConfigs}
    \cup {sample(msg, ts, k) : msg \in FileMessages, ts \in FileTimestamps}
    \cup {sample("counter get", BadTimestamp, k), MalformedLine}

RunIdle ==
    /\ Files = <<>> /\ fileIdx = 0 /\ heap = <<>> /\ data = EmptyMap
    /\ page = <<>> /\ output = "absent" /\ runPc = "idle" /\ runErr = ""

ToggleIdle == option = <<>> /\ clicks = <<>>

InitFile ==
    /\ entries = <<>>
    /\ measurements = NewMeasurements
    /\ start = ZeroTime
    /\ filePc = "decoding"
    /\ fileErr = ""
    /\ RunIdle
    /\ ToggleIdle

\* decoder.Decode returns an entry and the loop body runs to its end.
DecodeEntry ==
    /\ filePc = "decoding"
    /\ Len(entries) < MaxRecords
    /\ \E entry \in FileEntries(Len(entries) + 1) :
          /\ EntryError(measurements, entry) = ""
          /\ LET st == FoldEntry([m |-> measurements, start |-> start], entry) IN
                /\ measurements' = st.m
                /\ start' = st.start
          /\ entries' = Append(entries, entry)
    /\ UNCHANGED <<filePc, fileErr, runVars, toggleVars>>

\* decoder.Decode fails, time.Parse fails, or a second "running" is seen:
\* processFile returns nil and the error.
DecodeFails ==
    /\ filePc = "decoding"
    /\ Len(entries) < MaxRecords
    /\ \E entry \in FileEntries(Len(entries) + 1) :
          /\ EntryError(measurements, entry) # ""
          /\ fileErr' = EntryError(measurements, entry)
          /\ entries' = Append(entries, entry)
    /\ filePc' = "failed"
    /\ UNCHANGED <<measurements, start, runVars, toggleVars>>

\* io.EOF with no engine set: the "missing" error.
EndMissing ==
    /\ filePc = "decoding"
    /\ measurements.Engine = ""
    /\ filePc' = "failed"
    /\ fileErr' = "missing"
    /\ UNCHANGED <<entries, measurements, start, runVars, toggleVars>>

\* io.EOF with the engine set: reconciliation, and the measurements are returned.
EndReconcile ==
    /\ filePc = "decoding"
    /\ measurements.Engine # ""
    /\ measurements' = Reconcile(measurements)
    /\ filePc' = "returned"
    /\ UNCHANGED <<entries, start, fileErr, runVars, toggleVars>>

NextFile == DecodeEntry \/ DecodeFails \/ EndMissing \/ EndReconcile

SpecFile == InitFile /\ [][NextFile]_vars

----------------------------------------------------------------------------
(* processFile as a whole, as Run calls it *)

RECURSIVE ProcessFrom(_, _, _)
ProcessFrom(st, content, i) ==
    IF i > Len(content)
    THEN IF st.m.Engine = ""
         THEN [err |-> "missing", m |-> NewMeasurements]
         ELSE [err |-> "", m |-> Reconcile(st.m)]
    ELSE IF EntryError(st.m, content[i]) # ""
    THEN [err |-> EntryError(st.m, content[i]), m |-> NewMeasurements]
    ELSE ProcessFrom(FoldEntry(st, content[i]), content, i + 1)

\* The result of processFile on a file that opens: the error ("" for nil) and
\* the measurements (NewMeasurements standing for the nil pointer).
ProcessFile(content) ==
    ProcessFrom([m |-> NewMeasurements, start |-> ZeroTime], content, 1)

----------------------------------------------------------------------------
(* makeLineData, renderPlot *)

\* Go's integer division truncates toward zero; a Duration can be negative.
GoDiv(a, b) == IF a >= 0 THEN a \div b ELSE -((-a) \div b)

\* makeLineData without the division by dataIntervalUnit.
makeLineDataUnscaled(timestamps, values) ==
    [i \in 1 .. Len(values) |-> <<timestamps[i]>> \o values[i]]

\* One LineData per sample: the scaled offset, then the sample's values.
makeLineData(timestamps, values) ==
    [i \in 1 .. Len(values) |-> <<GoDiv(timestamps[i], dataIntervalUnit)>> \o values[i]]

\* The metric vocabulary renderData iterates, in its order.
MetricNames == <<"get rate", "set rate", "get ready", "get first", "get total", "set">>

\* strings.Contains(name, "rate"), on the vocabulary
ContainsRate(name) == name \in {"get rate", "set rate"}

\* measurements.Data[name]: nil for a name the map does not hold
DataOf(m, name) == IF name \in DOMAIN m.Data THEN m.Data[name] ELSE <<>>

LineSeries(m, name) ==
    [Name |-> m.Engine, Type |-> "line", RenderItem |-> "undefined",
     Data |-> makeLineData(m.Timestamps, DataOf(m, name))]

\* The second AddSeries of a latency chart: the custom (error bar) series.
CustomSeries(m, name) ==
    [Name |-> m.Engine, Type |-> "custom", RenderItem |-> "renderErrorBars",
     Data |-> makeLineData(m.Timestamps, DataOf(m, name))]

\* The series of one chart: per run its line, and on a latency chart its
\* custom series right after it.
SeriesOf(name, runs) ==
    IF ContainsRate(name)
    THEN [k \in 1 .. Len(runs) |-> LineSeries(runs[k], name)]
    ELSE [j \in 1 .. 2 * Len(runs) |->
            IF j % 2 = 1 THEN LineSeries(runs[(j + 1) \div 2], name)
                         ELSE CustomSeries(runs[j \div 2], name)]

renderPlot(config, name, runs) ==
    [Config  |-> config,
     Title   |-> name,
     YAxis   |-> IF ContainsRate(name) THEN "ops/s" ELSE "duration (ms)",
     Better  |-> IF ContainsRate(name) THEN "higher is better" ELSE "lower is better",
     \* the toolbox with the myErrorBars button, OnClick: toggleErrorBars
     Toolbox |-> ~ContainsRate(name),
     Series  |-> SeriesOf(name, runs)]

\* The inner loop of renderData: the six charts of one configuration.
ChartsFor(config, runs) ==
    [i \in 1 .. Len(MetricNames) |-> renderPlot(config, MetricNames[i], runs)]

----------------------------------------------------------------------------
(* Run: the loop over p.Files, then renderData *)

\* Insert that replaces the group instead of appending to it.
InsertOverwrite(d, config, ptr) ==
    IF config \in DOMAIN d
    THEN [d EXCEPT ![config] = <<ptr>>]
    ELSE d @@ (config :> <<ptr>>)

\* data[config] = append(data[config], measurements)
Insert(d, config, ptr) ==
    IF config \in DOMAIN d
    THEN [d EXCEPT ![config] = Append(@, ptr)]
    ELSE d @@ (config :> <<ptr>>)

FileIdle ==
    /\ entries = <<>> /\ measurements = NewMeasurements /\ start = ZeroTime
    /\ filePc = "idle" /\ fileErr = ""

\* One loop iteration whose processFile returns measurements.
ProcessNext ==
    /\ runPc = "files"
    /\ fileIdx <= Len(Files)
    /\ LET r == ProcessFile(Files[fileIdx]) IN
          /\ r.err = ""
          /\ heap' = Append(heap, r.m)
          /\ data' = Insert(data, r.m.Config, Len(heap) + 1)
    /\ fileIdx' = fileIdx + 1
    /\ UNCHANGED <<Files, page, output, runPc, runErr, fileVars, toggleVars>>

\* ProcessFails that drops the error and goes on with the next file.
ProcessFailsSkips ==
    /\ runPc = "files"
    /\ fileIdx <= Len(Files)
    /\ ProcessFile(Files[fileIdx]).err # ""
    /\ fileIdx' = fileIdx + 1
    /\ UNCHANGED <<Files, heap, data, page, output, runPc, runErr, fileVars, toggleVars>>

\* One loop iteration whose processFile returns an error: Run returns it.
ProcessFails ==
    /\ runPc = "files"
    /\ fileIdx <= Len(Files)
    /\ ProcessFile(Files[fileIdx]).err # ""
    /\ runErr' = ProcessFile(Files[fileIdx]).err
    /\ runPc' = "failed"
    /\ UNCHANGED <<Files, fileIdx, heap, data, page, output, fileVars, toggleVars>>

\* os.Open fails in processFile: Run returns the error.
OpenFails ==
    /\ runPc = "files"
    /\ fileIdx <= Len(Files)
    /\ runErr' = "open"
    /\ runPc' = "failed"
    /\ UNCHANGED <<Files, fileIdx, heap, data, page, output, fileVars, toggleVars>>

\* The loop over p.Files ends: renderData starts with an empty page.
EnterRenderData ==
    /\ runPc = "files"
    /\ fileIdx > Len(Files)
    /\ runPc' = "render"
    /\ UNCHANGED <<Files, fileIdx, heap, data, page, output, runErr, fileVars, toggleVars>>

Rendered == {page[i].Config : i \in DOMAIN page}

Deref(ptrs) == [k \in 1 .. Len(ptrs) |-> heap[ptrs[k]]]

\* One iteration of the range over the map, which Go visits in any order.
RenderConfig ==
    /\ runPc = "render"
    /\ \E config \in DOMAIN data \ Rendered :
          page' = page \o ChartsFor(config, Deref(data[config]))
    /\ UNCHANGED <<Files, fileIdx, heap, data, output, runPc, runErr, fileVars, toggleVars>>

\* os.Create(p.Output) succeeds: the file exists and is empty.
CreateOutput ==
    /\ runPc = "render"
    /\ DOMAIN data \ Rendered = {}
    /\ output' = "created"
    /\ runPc' = "write"
    /\ UNCHANGED <<Files, fileIdx, heap, data, page, runErr, fileVars, toggleVars>>

\* os.Create(p.Output) fails.
CreateFails ==
    /\ runPc = "render"
    /\ DOMAIN data \ Rendered = {}
    /\ runErr' = "create"
    /\ runPc' = "failed"
    /\ UNCHANGED <<Files, fileIdx, heap, data, page, output, fileVars, toggleVars>>

\* page.Render(f) writes the whole document.
WriteOutput ==
    /\ runPc = "write"
    /\ output' = "complete"
    /\ runPc' = "done"
    /\ UNCHANGED <<Files, fileIdx, heap, data, page, runErr, fileVars, toggleVars>>

\* page.Render(f) fails: before anything reached the file, or after a part did.
WriteFails ==
    /\ runPc = "write"
    /\ output' \in {"created", "partial"}
    /\ runErr' = "write"
    /\ runPc' = "failed"
    /\ UNCHANGED <<Files, fileIdx, heap, data, page, fileVars, toggleVars>>

NextRun ==
    \/ ProcessNext \/ ProcessFails \/ OpenFails \/ EnterRenderData
    \/ RenderConfig \/ CreateOutput \/ CreateFails \/ WriteOutput \/ WriteFails


----------------------------------------------------------------------------
(* SpecRun: the inputs *)

BoundedSeq(S, n) == UNION {[1 .. k -> S] : k \in 0 .. n}

\* Engine "X", three "counter get" records one display unit apart.
FileA ==
    <<running("X", ConfigA, NoTimestamp), sample("counter get", 1, 100),
      sample("counter get", 3, 150), sample("counter get", 5, 130)>>

\* The same configuration, engine "Y".
FileB ==
    <<running("Y", ConfigA, NoTimestamp), sample("counter get", 1, 90),
      sample("counter get", 3, 95), sample("counter get", 5, 100)>>

\* Another configuration: two ticks of all six metrics, the second tick
\* cut short before its "sample set".
FileC ==
    <<running("X", ConfigB, NoTimestamp),
      sample("counter get", 2, 10), sample("counter set", 2, 11),
      sample("sample get.ready", 2, 12), sample("sample get.first", 2, 13),
      sample("sample get.total", 2, 14), sample("sample set", 2, 15),
      sample("counter get", 5, 20), sample("counter set", 5, 21),
      sample("sample get.ready", 5, 22), sample("sample get.first", 5, 23),
      sample("sample get.total", 5, 24)>>

\* A run of ConfigB whose marker comes after its first sample.
FileD ==
    <<sample("sample set", 2, 30), running("Z", ConfigB, NoTimestamp),
      sample("sample set", 4, 31)>>

FileNoMarker    == <<sample("counter get", 1, 7)>>
FileDup         == <<running("X", ConfigA, NoTimestamp), running("X", ConfigA, NoTimestamp)>>
FileBadTime     == <<running("X", ConfigA, NoTimestamp), sample("counter get", BadTimestamp, 7)>>
FileMalformed   == <<running("X", ConfigA, NoTimestamp), MalformedLine>>
FileEmptyEngine == <<running("", ConfigA, NoTimestamp), sample("counter get", 1, 7)>>

NamedFiles ==
    {FileA, FileB, FileC, FileD, FileNoMarker, FileDup, FileBadTime,
     FileMalformed, FileEmptyEngine}

GenMessages   == {"counter get", "sample set", "other"}
GenTimestamps == {NoTimestamp} \cup (ZeroTime .. MaxGenT)

\* A marker, then n entries whose tags and timestamps f lists; the k-th of
\* them carries the sample value k.
GeneratedFile(n, f) ==
    <<running("X", ConfigA, NoTimestamp)>>
        \o [k \in 1 .. n |-> sample(f[k][1], f[k][2], k)]

RunReady ==
    /\ fileIdx = 1
    /\ heap = <<>>
    /\ data = EmptyMap
    /\ page = <<>>
    /\ output = "absent"
    /\ runPc = "files"
    /\ runErr = ""
    /\ FileIdle
    /\ ToggleIdle

RunStart(inputs) ==
    /\ Files \in inputs
    /\ RunReady

\* p.Files: up to MaxFiles of the named files, or one generated file of up to
\* MaxSamples entries.
InitRun ==
    /\ \/ Files \in BoundedSeq(NamedFiles, MaxFiles)
       \/ \E n \in 0 .. MaxSamples :
            \E f \in [1 .. n -> GenMessages \X GenTimestamps] :
                Files = <<GeneratedFile(n, f)>>
    /\ RunReady

SpecRun == InitRun /\ [][NextRun]_vars

----------------------------------------------------------------------------
(* SpecToggle: the emitted document in its host *)

\* toggleErrorBars that only ever hides.
toggleErrorBarsHideOnly(series) ==
    [i \in DOMAIN series |->
        IF series[i].Type = "custom"
        THEN [series[i] EXCEPT !.RenderItem = "null"]
        ELSE series[i]]

\* toggleErrorBars on one chart: the series list it hands to setOption, merged
\* into the chart's option. A custom series gets renderItem null if it has one
\* and renderErrorBars if it has null; every other series gets {}.
toggleErrorBars(series) ==
    [i \in DOMAIN series |->
        IF series[i].Type = "custom"
        THEN IF series[i].RenderItem = "null"
             THEN [series[i] EXCEPT !.RenderItem = "renderErrorBars"]
             ELSE [series[i] EXCEPT !.RenderItem = "null"]
        ELSE series[i]]

\* The host builds one chart instance per chart of the written document.
OpenDocument ==
    /\ runPc = "done"
    /\ Len(option) < Len(page)
    /\ option' = [c \in DOMAIN page |-> page[c].Series]
    /\ clicks' = [c \in DOMAIN page |-> 0]
    /\ UNCHANGED <<runVars, fileVars>>

\* Toggle as one switch for the whole document: every chart is flipped.
ToggleAll(c) ==
    /\ page[c].Toolbox
    /\ clicks[c] < MaxClicks
    /\ option' = [d \in DOMAIN option |-> toggleErrorBars(option[d])]
    /\ clicks' = [clicks EXCEPT ![c] = @ + 1]
    /\ UNCHANGED <<runVars, fileVars>>

\* A click on the myErrorBars button of chart c: `this` is that chart.
Toggle(c) ==
    /\ page[c].Toolbox
    /\ clicks[c] < MaxClicks
    /\ option' = [option EXCEPT ![c] = toggleErrorBars(@)]
    /\ clicks' = [clicks EXCEPT ![c] = @ + 1]
    /\ UNCHANGED <<runVars, fileVars>>

ToggleClick == \E c \in DOMAIN option : Toggle(c)

ToggleInputs == {<<FileC>>, <<FileC, FileD>>, <<FileA, FileC>>, <<FileDup>>}

InitToggle == RunStart(ToggleInputs)

NextToggle == NextRun \/ OpenDocument \/ ToggleClick

SpecToggle == InitToggle /\ [][NextToggle]_vars


----------------------------------------------------------------------------
(* Properties of processFile, checked under SpecFile *)

Stamped(e) == ~e.Malformed /\ e.Timestamp \notin {NoTimestamp, BadTimestamp}

\* The timestamped entries decoded so far, in stream order.
StampedEntries == SelectSeq(entries, Stamped)

MarkerCount == Cardinality({i \in DOMAIN entries : entries[i].Message = "running"})

\* How many decoded entries carried a sample of the series `name`.
SamplesOf(name) ==
    Cardinality({i \in DOMAIN entries : MetricOf(entries[i].Message) = name})

StrictlyIncreasing(s) == \A i \in 1 .. Len(s) - 1 : s[i] < s[i + 1]

StartsAtZero(s) == s # <<>> => s[1] = 0

LeastOf(S) == CHOOSE l \in S : \A k \in S : l <= k

LengthsOf(m) == {Len(m.Timestamps)} \cup {Len(m.Data[n]) : n \in DOMAIN m.Data}

IsPrefixOfLen(post, pre, L) ==
    /\ Len(post) = L
    /\ L <= Len(pre)
    /\ \A i \in 1 .. L : post[i] = pre[i]

\* The stream has not been rejected.
Accepted == filePc \in {"decoding", "returned"}

\* The step from the end of the stream to the returned measurements.
Reconciling == filePc = "decoding" /\ filePc' = "returned"

\* Every timestamp is later than the zero instant and none is earlier than
\* the one before it in the stream.
ChronologicalInput ==
    /\ \A i \in DOMAIN StampedEntries : StampedEntries[i].Timestamp > ZeroTime
    /\ \A i \in 1 .. Len(StampedEntries) - 1 :
          StampedEntries[i].Timestamp <= StampedEntries[i + 1].Timestamp

C1_ReconcileStep ==
    Reconciling =>
        LET L == LeastOf(LengthsOf(measurements)) IN
        /\ DOMAIN measurements'.Data = DOMAIN measurements.Data
        /\ IsPrefixOfLen(measurements'.Timestamps, measurements.Timestamps, L)
        /\ \A n \in DOMAIN measurements.Data :
              IsPrefixOfLen(measurements'.Data[n], measurements.Data[n], L)

\* C1: reconciliation leaves the offsets and every series of the mapping with
\* one common length L, the least of their lengths before it, each being the
\* first L entries of what it was (nothing padded, nothing reordered).
C1_Reconciled == [][C1_ReconcileStep]_vars

\* Two "counter get" samples were decoded and reconciliation kept one.
C1_Witness ==
    /\ filePc = "returned"
    /\ SamplesOf("get rate") = 2
    /\ SamplesOf("set") = 1
    /\ Len(measurements.Data["get rate"]) = 1
    /\ Len(measurements.Timestamps) = 1
    /\ Len(StampedEntries) = 3

\* C2 as stated: for a stream with its marker, whatever the order of its
\* timestamps (all later than the zero instant), the offsets are strictly
\* increasing and start at zero, during the fold and after reconciliation.
C2_Original ==
    (/\ Accepted
     /\ measurements.Engine # ""
     /\ \A i \in DOMAIN StampedEntries : StampedEntries[i].Timestamp > ZeroTime)
    => /\ StrictlyIncreasing(measurements.Timestamps)
       /\ StartsAtZero(measurements.Timestamps)

\* C2 amended: the first offset is always zero; the offsets are strictly
\* increasing for a stream whose timestamps are later than the zero instant
\* and never go back in stream order.
C2_Amended ==
    Accepted =>
        /\ StartsAtZero(measurements.Timestamps)
        /\ ChronologicalInput => StrictlyIncreasing(measurements.Timestamps)

\* A returned run of a chronological stream in which two consecutive
\* timestamps are equal and two offsets remain.
C2_Witness ==
    /\ filePc = "returned"
    /\ ChronologicalInput
    /\ Len(measurements.Timestamps) >= 2
    /\ \E i \in 1 .. Len(StampedEntries) - 1 :
          StampedEntries[i].Timestamp = StampedEntries[i + 1].Timestamp

\* C3 as stated: on well-formed records, measurements are returned exactly
\* when the stream holds exactly one marker, the missing-marker error is
\* returned exactly when it holds none, and a second marker is always the
\* duplicate-marker error.
C3_Original ==
    (filePc \in {"returned", "failed"} /\ fileErr \notin {"decode", "timestamp"})
    => /\ filePc = "returned" <=> MarkerCount = 1
       /\ fileErr = "missing" <=> MarkerCount = 0
       /\ MarkerCount >= 2 => fileErr = "duplicate"

\* The timestamp of the last timestamped entry decoded so far.
LastStamp ==
    IF StampedEntries = <<>> THEN NoTimestamp
    ELSE StampedEntries[Len(StampedEntries)].Timestamp

\* The entry a DecodeEntry step folds.
Folded == entries'[Len(entries')]

\* A step that folds a sample whose timestamp is the one of the timestamped
\* record before it: the two have the same elapsed offset.
CoalescingStep ==
    /\ filePc = "decoding" /\ filePc' = "decoding"
    /\ Len(entries') = Len(entries) + 1
    /\ Folded.Timestamp > ZeroTime
    /\ Folded.Timestamp = LastStamp
    /\ MetricOf(Folded.Message) # ""

C9_OriginalStep ==
    CoalescingStep =>
        /\ Len(measurements'.Timestamps) = Len(measurements.Timestamps)
        /\ measurements'.Data = measurements.Data

\* C9 as stated: the second of two records with one elapsed offset adds no
\* offset entry and its sample is appended to no series.
C9_Original == [][C9_OriginalStep]_vars

C9_AmendedStep ==
    CoalescingStep =>
        LET name == MetricOf(Folded.Message)
            old  == IF name \in DOMAIN measurements.Data
                    THEN measurements.Data[name] ELSE <<>>
            new  == measurements'.Data
        IN /\ measurements'.Timestamps = measurements.Timestamps
           /\ DOMAIN new = DOMAIN measurements.Data \cup {name}
           /\ Len(new[name]) = Len(old) + 1
           /\ \A i \in 1 .. Len(old) : new[name][i] = old[i]
           /\ new[name][Len(old) + 1][1] = Folded.Rate
           /\ \A n \in DOMAIN measurements.Data \ {name} :
                 new[n] = measurements.Data[n]

\* C9 amended: the second record adds no offset entry, and its sample is kept:
\* it is appended to the series of its own metric, like any other sample.
C9_Amended == [][C9_AmendedStep]_vars

\* Two "counter get" records with one timestamp: one offset, two samples.
C9_Witness ==
    /\ Accepted
    /\ Len(StampedEntries) = 2
    /\ StampedEntries[1].Timestamp = StampedEntries[2].Timestamp
    /\ StampedEntries[1].Timestamp > ZeroTime
    /\ Len(measurements.Timestamps) = 1
    /\ "get rate" \in DOMAIN measurements.Data
    /\ Len(measurements.Data["get rate"]) = 2

C10_OriginalStep ==
    (Reconciling /\ ChronologicalInput) =>
        \A n \in DOMAIN measurements.Data :
            Len(measurements'.Data[n]) =
                Min2(Len(measurements.Data[n]), Len(measurements.Timestamps))

\* C10 as stated (on chronological streams): the reconciled length of a series is the lesser of its own
\* sample count and the offset count, whatever the other series hold.
C10_Original == [][C10_OriginalStep]_vars

C10_AmendedStep ==
    Reconciling =>
        LET pre == measurements.Data  post == measurements'.Data IN
        /\ \A n \in DOMAIN pre : Len(post[n]) <= Len(pre[n])
        /\ \A a, b \in DOMAIN pre : Len(post[a]) = Len(post[b])
        /\ \A n \in DOMAIN pre :
              Len(post[n]) = Len(pre[n])
              <=> /\ Len(pre[n]) <= Len(measurements.Timestamps)
                  /\ \A o \in DOMAIN pre : Len(pre[n]) <= Len(pre[o])

\* C10 amended: the series of one run are cut to one common length; a series
\* keeps its own sample count exactly when no other series of the run and not
\* the offsets are shorter.
C10_Amended == [][C10_AmendedStep]_vars

\* Three offsets, two "counter get" samples, one "sample set" sample: the
\* "get rate" series is returned with one entry.
C10_Witness ==
    /\ filePc = "returned"
    /\ Len(StampedEntries) = 3
    /\ \A i \in 1 .. 3 : StampedEntries[i].Timestamp > ZeroTime
    /\ \A i \in 1 .. 2 : StampedEntries[i].Timestamp # StampedEntries[i + 1].Timestamp
    /\ SamplesOf("get rate") = 2
    /\ SamplesOf("set") = 1
    /\ Len(measurements.Data["get rate"]) = 1
    /\ Len(measurements.Data["set"]) = 1


----------------------------------------------------------------------------
(* Properties of Run and renderData, checked under SpecRun *)

\* The errors that come from an input file.
InputErrors == {"open", "decode", "timestamp", "missing", "duplicate"}

\* Every file of p.Files was processed and gave measurements.
AllReconciled ==
    /\ fileIdx > Len(Files)
    /\ Len(heap) = Len(Files)
    /\ \A i \in DOMAIN Files : ProcessFile(Files[i]).err = ""

\* Every configuration has its six charts on the page.
AllRendered ==
    /\ Rendered = DOMAIN data
    /\ Len(page) = Len(MetricNames) * Cardinality(DOMAIN data)

\* C4 as stated: whenever Run fails nothing has been written to the sink, and
\* output is there only when every file was reconciled and every chart rendered.
C4_Original ==
    /\ runPc = "failed" => output \notin {"partial", "complete"}
    /\ output \in {"partial", "complete"} => AllReconciled /\ AllRendered

\* C4 amended: a failing input file or a failing os.Create leaves the sink
\* untouched; a failing write leaves it created, empty or partly written; the
\* sink is touched only after every file was reconciled and every chart
\* rendered, and holds the whole document exactly when Run succeeded.
C4_Amended ==
    /\ runPc = "failed" <=> runErr # ""
    /\ runErr \in InputErrors \cup {"create"} => output = "absent"
    /\ runErr = "write" => output \in {"created", "partial"}
    /\ output # "absent" => AllReconciled /\ AllRendered
    /\ output = "complete" <=> runPc = "done"

\* Two files were reconciled, their charts rendered, and the write failed
\* after a part of the document had reached the file.
C4_Witness ==
    /\ runPc = "failed"
    /\ runErr = "write"
    /\ output = "partial"
    /\ Len(heap) = 2
    /\ Len(page) = 2 * Len(MetricNames)

\* The groups as sets of runs.
Partition(d) == {{d[c][k] : k \in DOMAIN d[c]} : c \in DOMAIN d}

\* The loop of Run over a list of files that all give measurements: the map
\* it builds, the i-th file's measurements being pointer i.
RECURSIVE GroupFrom(_, _, _)
GroupFrom(fs, i, d) ==
    IF i > Len(fs) THEN d
    ELSE GroupFrom(fs, i + 1, Insert(d, ProcessFile(fs[i]).m.Config, i))

FileOrders(n) == {p \in [1 .. n -> 1 .. n] : \A i, j \in 1 .. n : p[i] = p[j] => i = j}

\* The partition Run builds from the files taken in the order p, each run
\* named by its file's position in p.Files.
PartitionUnder(p) ==
    LET d == GroupFrom([i \in DOMAIN Files |-> Files[p[i]]], 1, EmptyMap) IN
    {{p[ptr] : ptr \in g} : g \in Partition(d)}

\* C5: every run is in exactly one group, at one place; two runs share a group
\* exactly when their configurations are field-wise equal; a group lists its
\* runs in the order their files were processed; and once all files are
\* processed the partition is the one every permutation of p.Files gives.
C5_Grouping ==
    /\ \A ptr \in DOMAIN heap :
          Cardinality({ck \in {<<c, k>> : c \in DOMAIN data, k \in 1 .. Len(heap)} :
                          /\ ck[2] \in DOMAIN data[ck[1]]
                          /\ data[ck[1]][ck[2]] = ptr}) = 1
    /\ \A c \in DOMAIN data : \A k \in DOMAIN data[c] :
          /\ data[c][k] \in DOMAIN heap
          /\ \A f \in {"Writers", "Readers", "Size", "Vary"} :
                heap[data[c][k]].Config[f] = c[f]
    /\ \A p, q \in DOMAIN heap :
          (\E g \in Partition(data) : p \in g /\ q \in g)
          <=> (\A f \in {"Writers", "Readers", "Size", "Vary"} :
                  heap[p].Config[f] = heap[q].Config[f])
    /\ \A c \in DOMAIN data : \A k, l \in DOMAIN data[c] :
          k < l => data[c][k] < data[c][l]
    /\ (runPc \in {"render", "write", "done"}) =>
          \A p \in FileOrders(Len(Files)) : PartitionUnder(p) = Partition(data)

\* Three files processed: the first and the third share a configuration, the
\* second has another.
C5_Witness ==
    /\ runPc = "render"
    /\ Len(heap) = 3
    /\ data[heap[1].Config] = <<1, 3>>
    /\ data[heap[2].Config] = <<2>>
    /\ heap[1].Engine # heap[3].Engine

\* The entries of a file that carry a sample of the series `name`.
Carriers(content, name) ==
    LET Carries(e) == ~e.Malformed /\ MetricOf(e.Message) = name IN
    SelectSeq(content, Carries)

\* The first timestamp of a file.
Baseline(content) == SelectSeq(content, Stamped)[1].Timestamp

\* x is offset / dataIntervalUnit as Go divides: truncated toward zero.
Scaled(offset, x) ==
    IF offset >= 0
    THEN x >= 0 /\ dataIntervalUnit * x <= offset /\ offset < dataIntervalUnit * (x + 1)
    ELSE x <= 0 /\ dataIntervalUnit * x >= offset /\ offset > dataIntervalUnit * (x - 1)

\* Every entry but the marker is a timestamped sample of one of the six
\* metrics, the timestamps later than the zero instant and in order.
TimedSamples(content) ==
    /\ \A i \in DOMAIN content :
          \/ content[i].Message = "running"
          \/ MetricOf(content[i].Message) # "" /\ Stamped(content[i])
    /\ \A i \in DOMAIN content :
          Stamped(content[i]) => content[i].Timestamp > ZeroTime
    /\ LET st == SelectSeq(content, Stamped) IN
       \A i \in 1 .. Len(st) - 1 : st[i].Timestamp <= st[i + 1].Timestamp

\* The place in a chart's series list of the line of the k-th run.
LineAt(chart, k) == IF chart.Toolbox THEN 2 * k - 1 ELSE k

\* C8 as stated: in every chart, the i-th point of a run's line has as x the
\* elapsed offset of the record that carried the i-th sample of the chart's
\* metric, divided by the display unit.
C8_Original ==
    \A ci \in DOMAIN page : \A k \in DOMAIN data[page[ci].Config] :
        LET chart   == page[ci]
            content == Files[data[chart.Config][k]]
            points  == chart.Series[LineAt(chart, k)].Data
            carrier == Carriers(content, chart.Title)
        IN TimedSamples(content) =>
              \A i \in DOMAIN points :
                  Scaled(carrier[i].Timestamp - Baseline(content), points[i][1])

\* The i-th record of the file opens a new offset: it is timestamped and its
\* timestamp is not that of the timestamped record before it.
Opens(content, i) ==
    /\ Stamped(content[i])
    /\ \A j \in 1 .. i - 1 :
          (Stamped(content[j]) /\ \A q \in j + 1 .. i - 1 : ~Stamped(content[q]))
          => content[j].Timestamp # content[i].Timestamp

\* The position in the file of the record carrying the i-th sample of `name`.
CarrierAt(content, name, i) ==
    CHOOSE pos \in DOMAIN content :
        /\ MetricOf(content[pos].Message) = name
        /\ Cardinality({q \in 1 .. pos : MetricOf(content[q].Message) = name}) = i

\* The i-th sample of `name` came with the i-th distinct consecutive timestamp.
Aligned(content, name, i) ==
    LET pos == CarrierAt(content, name, i) IN
    /\ Stamped(content[pos])
    /\ Cardinality({q \in 1 .. pos : Opens(content, q)}) = i

\* C8 amended: the i-th point of a run's line has as x the i-th entry of the
\* run's offset sequence, divided by the display unit with truncation, and
\* carries the i-th retained sample. It is the offset of the record that carried
\* that sample when that record came with the i-th distinct consecutive
\* timestamp of a stream whose timestamps are later than the zero instant.
C8_Amended ==
    \A ci \in DOMAIN page : \A k \in DOMAIN data[page[ci].Config] :
        LET chart   == page[ci]
            ptr     == data[chart.Config][k]
            content == Files[ptr]
            series  == chart.Series[LineAt(chart, k)]
            points  == series.Data
            kept    == IF chart.Title \in DOMAIN heap[ptr].Data
                       THEN heap[ptr].Data[chart.Title] ELSE <<>>
        IN /\ series.Type = "line"
           /\ series.Name = heap[ptr].Engine
           /\ Len(points) = Len(kept)
           /\ \A i \in DOMAIN points :
                 /\ Scaled(heap[ptr].Timestamps[i], points[i][1])
                 /\ SubSeq(points[i], 2, Len(points[i])) = kept[i]
                 /\ kept[i] = SampleOf(Carriers(content, chart.Title)[i])
                 /\ ((\A j \in DOMAIN content :
                         Stamped(content[j]) => content[j].Timestamp > ZeroTime)
                     /\ Aligned(content, chart.Title, i))
                    => Scaled(content[CarrierAt(content, chart.Title, i)].Timestamp
                                 - Baseline(content), points[i][1])

\* The "get rate" chart of ConfigA with the lines of engines X and Y, three
\* points each at x = 0, 1, 2.
C8_Witness ==
    \E ci \in DOMAIN page :
        /\ page[ci].Title = "get rate"
        /\ page[ci].Config = ConfigA
        /\ Len(page[ci].Series) = 2
        /\ page[ci].Series[1].Name = "X"
        /\ page[ci].Series[1].Data = <<<<0, 100>>, <<1, 150>>, <<2, 130>>>>
        /\ page[ci].Series[2].Name = "Y"
        /\ page[ci].Series[2].Data = <<<<0, 90>>, <<1, 95>>, <<2, 100>>>>


----------------------------------------------------------------------------
(* Properties of the toggle, checked under SpecToggle *)

\* The auxiliary (error bar) series of chart c.
Aux(c) == {i \in DOMAIN option[c] : option[c][i].Type = "custom"}

\* An auxiliary series draws its whiskers; with renderItem null it is hidden.
Shown(series) == series.RenderItem = "renderErrorBars"

Hidden(series) == series.RenderItem = "null"

\* The charts that have auxiliary series.
LatencyCharts == {c \in DOMAIN option : Aux(c) # {}}

\* C6 as stated: after any clicks, the auxiliary series of all latency charts
\* of the document are in one state.
C6_Original ==
    \A c, d \in LatencyCharts : \A i \in Aux(c), j \in Aux(d) :
        Shown(option[c][i]) <=> Shown(option[d][j])

C6_AmendedStep ==
    (option' # option) =>
        /\ \A c \in DOMAIN option' : \A i, j \in DOMAIN option'[c] :
              (option'[c][i].Type = "custom" /\ option'[c][j].Type = "custom")
              => (Shown(option'[c][i]) <=> Shown(option'[c][j]))
        /\ \A c \in DOMAIN option :
              clicks'[c] # clicks[c] =>
                  /\ \A i \in Aux(c) : Shown(option'[c][i]) <=> ~Shown(option[c][i])
                  /\ \A d \in DOMAIN option \ {c} : option'[d] = option[d]

\* C6 amended: one click flips every auxiliary series of the chart whose button
\* was clicked and changes no other chart; the auxiliary series of one chart
\* are always in one state, those of different charts need not be.
C6_Amended == [][C6_AmendedStep]_vars

\* A chart with two auxiliary series, both hidden, beside a chart of the same
\* document whose auxiliary series are shown.
C6_Witness ==
    \E c, d \in LatencyCharts :
        /\ Cardinality(Aux(c)) = 2
        /\ \A i \in Aux(c) : Hidden(option[c][i])
        /\ \A j \in Aux(d) : Shown(option[d][j])

\* C7 as stated: the auxiliary series are hidden in the document as written;
\* after n clicks on a chart they are shown exactly when n is odd; the lines
\* never change; two clicks in a row give back the series list.
C7_Original ==
    /\ runPc = "done" =>
          \A c \in DOMAIN page : \A i \in DOMAIN page[c].Series :
              page[c].Series[i].Type = "custom" => Hidden(page[c].Series[i])
    /\ \A c \in DOMAIN option :
          /\ \A i \in Aux(c) : Shown(option[c][i]) <=> clicks[c] % 2 = 1
          /\ \A i \in DOMAIN option[c] \ Aux(c) : option[c][i] = page[c].Series[i]
          /\ toggleErrorBars(toggleErrorBars(option[c])) = option[c]

\* C7 amended: the auxiliary series are shown in the document as written; after
\* n clicks on a chart they are shown exactly when n is even and hidden exactly
\* when n is odd; the lines never change; two clicks in a row give back the
\* series list.
C7_Amended ==
    /\ \A c \in DOMAIN page : \A i \in DOMAIN page[c].Series :
          page[c].Series[i].Type = "custom" => Shown(page[c].Series[i])
    /\ \A c \in DOMAIN option :
          /\ \A i \in Aux(c) :
                /\ Shown(option[c][i]) <=> clicks[c] % 2 = 0
                /\ Hidden(option[c][i]) <=> clicks[c] % 2 = 1
                /\ [option[c][i] EXCEPT !.RenderItem = "renderErrorBars"]
                      = page[c].Series[i]
          /\ \A i \in DOMAIN option[c] \ Aux(c) : option[c][i] = page[c].Series[i]
          /\ DOMAIN option[c] = DOMAIN page[c].Series
          /\ toggleErrorBars(toggleErrorBars(option[c])) = option[c]

\* One chart clicked once, its auxiliary series hidden; another clicked twice,
\* its auxiliary series shown again.
C7_Witness ==
    \E c, d \in LatencyCharts :
        /\ clicks[c] = 1 /\ \A i \in Aux(c) : Hidden(option[c][i])
        /\ clicks[d] = 2 /\ \A j \in Aux(d) : Shown(option[d][j])

====
